---- MODULE Spec2Model ----
(***************************************************************************)
(* ShippingMethodChannelListingUpdate                                      *)
(* (saleor/graphql/shipping/mutations/channels.py).                        *)
(*                                                                         *)
(* The listing table is a bag of rows, so that two rows for one            *)
(* (shipping_method, channel) pair are representable.  A transaction is a  *)
(* pair of bags: the rows it inserted and the committed rows it locked     *)
(* (to delete or to replace them).                                         *)
(***************************************************************************)
EXTENDS Integers, Sequences, FiniteSets, Bags, TLC

VARIABLES listings, call, start, req, pc, idx, pending, outcome

vars == <<listings, call, start, req, pc, idx, pending, outcome>>

concVars == <<start, req, pc, idx, pending, outcome>>

(* ------------------------------ bounds -------------------------------- *)

\* The most channel references (entries of add_channels plus ids of
\* remove_channels) in one input.
MaxItems == 2

(* ------------------------------ values -------------------------------- *)

\* Python None, as stored in a nullable column.
NULL == 0

\* The rows of the ShippingMethod and Channel tables; nothing here writes them.
ShippingMethods == {1, 2}

Channels == {1, 2}

\* Identifiers a caller can send: the existing ones and one that resolves to nothing.
MethodIds == ShippingMethods \cup {3}

ChannelIds == Channels \cup {3}

DUPLICATED_INPUT_ITEM == "DUPLICATED_INPUT_ITEM"

NOT_FOUND == "NOT_FOUND"

Row(m, c, d) ==
  [shipping_method |-> m, channel |-> c, price |-> d.price,
   min_value |-> d.min_value, max_value |-> d.max_value]

\* dict.get(key, default)
Get(d, key, default) == IF key \in DOMAIN d THEN d[key] ELSE default

(* ------------------------------ inputs -------------------------------- *)

\* The optional keys of one ShippingMethodChannelListingAddInput: a key is
\* absent, null or a decimal.
AddValues ==
  {<< >>,
   [price |-> 1, min_value |-> NULL],
   [price |-> NULL, min_value |-> 1, max_value |-> 2]}

AddInputs == {[channel_id |-> c] @@ v : c \in ChannelIds, v \in AddValues}

SeqsOfLen(S, n) == [1..n -> S]

Inputs ==
  UNION {{[add_channels |-> a, remove_channels |-> r] :
            a \in SeqsOfLen(AddInputs, k[1]), r \in SeqsOfLen(ChannelIds, k[2])} :
         k \in {kk \in (0..MaxItems) \X (0..MaxItems) : kk[1] + kk[2] <= MaxItems}}

(* ------------------------------ the table ----------------------------- *)

Select(table, m, cs) ==
  LET S == {r \in BagToSet(table) : r.shipping_method = m /\ r.channel \in cs}
  IN  [r \in S |-> table[r]]

Count(table, m, c) == BagCardinality(Select(table, m, {c}))

NoTxn == [ins |-> EmptyBag, del |-> EmptyBag]

\* What a transaction reads: the committed rows it has not deleted or
\* replaced, and the rows it wrote.
View(table, t) == (table (-) t.del) (+) t.ins

commit(table, t) == (table (-) t.del) (+) t.ins

autocommit(table, t) == commit(table, t)

\* transaction.atomic(): an exception inside the block undoes the block.
rollback(table, t) == table

(* --------------------------- persistence ------------------------------ *)

One(r) == SetToBag({r})

\* The write of update_or_create on a matched row: a row this transaction
\* inserted is changed in place, a committed row is locked and superseded.
Replace(t, old, new) ==
  IF BagIn(old, t.ins)
    THEN [ins |-> (t.ins (-) One(old)) (+) One(new), del |-> t.del]
    ELSE [ins |-> t.ins (+) One(new), del |-> t.del (+) One(old)]

update_or_create_always_creates(table, st, m, c, defaults) ==
  [st EXCEPT !.t.ins = @ (+) One(Row(m, c, defaults))]

\* QuerySet.update_or_create(shipping_method=m, channel=c, defaults=defaults):
\* no match creates, one match overwrites the defaults, several raise
\* MultipleObjectsReturned.
update_or_create(table, st, m, c, defaults) ==
  LET sel == Select(View(table, st.t), m, {c})
      n   == BagCardinality(sel)
  IN  IF n = 0 THEN [st EXCEPT !.t.ins = @ (+) One(Row(m, c, defaults))]
      ELSE IF n = 1
        THEN LET old == CHOOSE r \in BagToSet(sel) : TRUE
             IN  [st EXCEPT !.t = Replace(@, old, Row(m, c, defaults))]
      ELSE [st EXCEPT !.raised = TRUE]

defaults_keep_omitted(table, st, m, add_channel) ==
  LET sel == BagToSet(Select(View(table, st.t), m, {add_channel.channel}))
      old == IF sel = {} THEN [price |-> NULL, min_value |-> NULL, max_value |-> NULL]
             ELSE CHOOSE r \in sel : TRUE
  IN  [price     |-> Get(add_channel, "price", old.price),
       min_value |-> Get(add_channel, "min_value", old.min_value),
       max_value |-> Get(add_channel, "max_value", old.max_value)]

\* The defaults dict built for one entry of add_channels.
defaults_of(table, st, m, add_channel) ==
  [price     |-> Get(add_channel, "price", NULL),
   min_value |-> Get(add_channel, "min_value", NULL),
   max_value |-> Get(add_channel, "max_value", NULL)]

\* The loop of add_channels from entry i on.  fault is the number of the
\* storage statement that raises (0: none); a raise ends the loop.
RECURSIVE add_channels_from(_, _, _, _, _, _)
add_channels_from(table, st, m, entries, fault, i) ==
  IF i > Len(entries) \/ st.raised THEN st
  ELSE IF fault = i THEN [st EXCEPT !.raised = TRUE]
  ELSE add_channels_from(
         table,
         update_or_create(table, st, m, entries[i].channel,
                          defaults_of(table, st, m, entries[i])),
         m, entries, fault, i + 1)

add_channels(table, st, m, entries, fault) ==
  add_channels_from(table, st, m, entries, fault, 1)

SeqRange(s) == {s[i] : i \in DOMAIN s}

remove_channels_any_method(table, st, m, remove, fails) ==
  IF st.raised THEN st
  ELSE IF fails THEN [st EXCEPT !.raised = TRUE]
  ELSE LET cs   == SeqRange(remove)
           pick(b) == LET S == {r \in BagToSet(b) : r.channel \in cs}
                      IN  [r \in S |-> b[r]]
       IN  [st EXCEPT !.t = [ins |-> st.t.ins (-) pick(st.t.ins),
                             del |-> st.t.del (+) pick(table (-) st.t.del)]]

remove_channels_all_channels(table, st, m, remove, fails) ==
  IF st.raised THEN st
  ELSE IF fails THEN [st EXCEPT !.raised = TRUE]
  ELSE [st EXCEPT !.t = [ins |-> st.t.ins (-) Select(st.t.ins, m, ChannelIds),
                         del |-> st.t.del (+) Select(table (-) st.t.del, m, ChannelIds)]]

remove_channels_requires_rows(table, st, m, remove, fails) ==
  LET cs == SeqRange(remove)
  IN  IF st.raised THEN st
      ELSE IF fails \/ \E c \in cs : Select(View(table, st.t), m, {c}) = EmptyBag
        THEN [st EXCEPT !.raised = TRUE]
      ELSE [st EXCEPT !.t = [ins |-> st.t.ins (-) Select(st.t.ins, m, cs),
                             del |-> st.t.del (+) Select(table (-) st.t.del, m, cs)]]

\* filter(shipping_method=m, channel_id__in=remove).delete()
remove_channels(table, st, m, remove, fails) ==
  IF st.raised THEN st
  ELSE IF fails THEN [st EXCEPT !.raised = TRUE]
  ELSE LET cs == SeqRange(remove)
       IN  [st EXCEPT !.t = [ins |-> st.t.ins (-) Select(st.t.ins, m, cs),
                             del |-> st.t.del (+) Select(table (-) st.t.del, m, cs)]]

\* save, under transaction.atomic(): the adds, then the removes, committed
\* together or not at all.
save(table, m, cleaned_input, fault) ==
  LET adds == Get(cleaned_input, "add_channels", << >>)
      rems == Get(cleaned_input, "remove_channels", << >>)
      s1   == add_channels(table, [t |-> NoTxn, raised |-> FALSE], m, adds, fault)
      s2   == remove_channels(table, s1, m, rems, fault = Len(adds) + 1)
  IN  [table  |-> IF s2.raised THEN rollback(table, s2.t) ELSE commit(table, s2.t),
       raised |-> s2.raised]

(* ---------------------------- validation ------------------------------ *)

\* get_node_or_error(info, id, only_type=ShippingMethod, field="id")
get_node_or_error(id) == [found |-> id \in ShippingMethods, node |-> id]

HasDuplicates(s) == \E i, j \in DOMAIN s : i < j /\ s[i] = s[j]

Error(field, code) == [field |-> field, code |-> code]

NoInput == [add_channels |-> << >>, remove_channels |-> << >>]

\* BaseChannelListing.clean_channels: duplicate checks first, then the
\* channels of add_channels are resolved to records and stored under the
\* key "channel"; remove_channels is decoded to primary keys.
clean_channels(input, error_code) ==
  LET add     == Get(input, "add_channels", << >>)
      add_ids == [i \in DOMAIN add |-> add[i].channel_id]
      rem_ids == Get(input, "remove_channels", << >>)
      dups    == {Error("input", error_code) : x \in SeqRange(add_ids) \cap SeqRange(rem_ids)}
                   \cup (IF HasDuplicates(add_ids)
                           THEN {Error("add_channels", error_code)} ELSE {})
                   \cup (IF HasDuplicates(rem_ids)
                           THEN {Error("remove_channels", error_code)} ELSE {})
  IN  IF dups # {} THEN [errors |-> dups, cleaned_input |-> NoInput]
      ELSE IF ~(SeqRange(add_ids) \subseteq Channels)
        THEN [errors |-> {Error("channel_id", NOT_FOUND)}, cleaned_input |-> NoInput]
      ELSE [errors |-> {},
            cleaned_input |->
              [add_channels    |-> [i \in DOMAIN add |-> add[i] @@ [channel |-> add_ids[i]]],
               remove_channels |-> rem_ids]]

(* ----------------------------- the mutation --------------------------- *)

Result(table, errors, saved, raised) ==
  [table |-> table, errors |-> errors, saved |-> saved, raised |-> raised]

perform_mutation_ignoring_errors(table, id, input, fault) ==
  LET n == get_node_or_error(id)
      c == clean_channels(input, DUPLICATED_INPUT_ITEM)
      s == save(table, n.node, c.cleaned_input, fault)
  IN  IF ~n.found THEN Result(table, {Error("id", NOT_FOUND)}, FALSE, FALSE)
      ELSE Result(s.table, {}, TRUE, s.raised)

perform_mutation(table, id, input, fault) ==
  LET n == get_node_or_error(id)
      c == clean_channels(input, DUPLICATED_INPUT_ITEM)
      s == save(table, n.node, c.cleaned_input, fault)
  IN  IF ~n.found THEN Result(table, {Error("id", NOT_FOUND)}, FALSE, FALSE)
      ELSE IF c.errors # {} THEN Result(table, c.errors, FALSE, FALSE)
      ELSE Result(s.table, {}, TRUE, s.raised)

NoCall ==
  [id |-> 0, input |-> NoInput, fault |-> 0, before |-> EmptyBag,
   errors |-> {}, saved |-> FALSE, raised |-> FALSE]

\* One request served from start to end; fault is the storage statement of
\* save that raises, if any.  call keeps the request and its result until
\* the response is delivered.
PerformMutation(id, input, fault) ==
  /\ call = NoCall
  /\ LET r == perform_mutation(listings, id, input, fault)
     IN  /\ listings' = r.table
         /\ call' = [id |-> id, input |-> input,
                     fault |-> IF r.saved THEN fault ELSE 0,
                     before |-> listings, errors |-> r.errors,
                     saved |-> r.saved, raised |-> r.raised]
  /\ UNCHANGED concVars

\* The response (the updated shipping method, or the errors) leaves the handler.
Respond ==
  /\ call # NoCall
  /\ call' = NoCall
  /\ UNCHANGED <<listings, concVars>>

InitConcIdle ==
  /\ start = EmptyBag
  /\ req = << >>
  /\ pc = << >>
  /\ idx = << >>
  /\ pending = << >>
  /\ outcome = << >>

Init ==
  /\ listings = EmptyBag
  /\ call = NoCall
  /\ InitConcIdle

\* The storage statements of save that can raise in a call: the upserts,
\* numbered from 1, and the delete after them; 0 is a call with no failure.
Faults(id, input) ==
  IF get_node_or_error(id).found /\ clean_channels(input, DUPLICATED_INPUT_ITEM).errors = {}
    THEN 0..(Len(input.add_channels) + 1)
    ELSE {0}

\* The handler takes the next request once the last response has left.
HandleRequest ==
  /\ call = NoCall
  /\ \E id \in MethodIds, input \in Inputs :
       \E fault \in Faults(id, input) :
         PerformMutation(id, input, fault)

Next ==
  \/ HandleRequest
  \/ Respond

Spec == Init /\ [][Next]_vars

(* ------------------------ concurrent calls ---------------------------- *)
(* Two requests served at once, each in its own transaction, on a store    *)
(* with READ COMMITTED isolation, row locks held to the end of the         *)
(* transaction and a unique index on (shipping_method, channel).           *)
(* listings holds the committed rows; pending[p] holds what transaction p  *)
(* has written and locked.                                                 *)

Procs == {1, 2}

\* Process p writes price p, so that a row tells who wrote it.
ConcAddInputs(p) == {[channel_id |-> c, price |-> p] : c \in Channels}

ConcInputs(p) ==
  UNION {{[add_channels |-> a, remove_channels |-> r] :
            a \in SeqsOfLen(ConcAddInputs(p), k[1]), r \in SeqsOfLen(Channels, k[2])} :
         k \in {kk \in (0..MaxItems) \X (0..MaxItems) : kk[1] + kk[2] <= MaxItems}}

FullTable ==
  SetToBag({Row(m, c, [price |-> NULL, min_value |-> 1, max_value |-> 2]) :
              m \in ShippingMethods, c \in Channels})

\* One row for method 1 and one for method 2, in different channels.
HalfTable == Select(FullTable, 1, {1}) (+) Select(FullTable, 2, {2})

StartTables == {EmptyBag, HalfTable, FullTable}

NoReq == [id |-> 0, input |-> NoInput, cleaned_input |-> NoInput]

Adds(p) == Get(req[p].cleaned_input, "add_channels", << >>)

Removes(p) == Get(req[p].cleaned_input, "remove_channels", << >>)

Entry(p) == Adds(p)[idx[p]]

\* The transactions that hold a lock on a committed row of (m, cs).
Lockers(p, m, cs) == {q \in Procs \ {p} : Select(pending[q].del, m, cs) # EmptyBag}

\* The transactions with an uncommitted insert under the key (m, c).
Inserters(p, m, c) == {q \in Procs \ {p} : Select(pending[q].ins, m, {c}) # EmptyBag}

\* The transactions the next statement of p waits for.
Blockers(p) ==
  IF pc[p] \in {"get", "retry"} THEN Lockers(p, req[p].id, {Entry(p).channel})
  ELSE IF pc[p] = "create"
    THEN Lockers(p, req[p].id, {Entry(p).channel})
           \cup Inserters(p, req[p].id, Entry(p).channel)
  ELSE IF pc[p] = "delete" THEN Lockers(p, req[p].id, SeqRange(Removes(p)))
  ELSE {}

AfterEntry(p, i) == IF i < Len(Adds(p)) THEN "get" ELSE "delete"

\* The exception leaves save: transaction.atomic() undoes the block.
Reject(p) ==
  /\ listings' = rollback(listings, pending[p])
  /\ pending' = [pending EXCEPT ![p] = NoTxn]
  /\ pc' = [pc EXCEPT ![p] = "done"]
  /\ outcome' = [outcome EXCEPT ![p] = "rejected"]
  /\ UNCHANGED <<call, start, req, idx>>

\* perform_mutation up to the call of save.
Begin(p, id, input) ==
  /\ pc[p] = "idle"
  /\ LET n == get_node_or_error(id)
         c == clean_channels(input, DUPLICATED_INPUT_ITEM)
         valid == n.found /\ c.errors = {}
     IN  /\ req' = [req EXCEPT ![p] = [id |-> id, input |-> input,
                                       cleaned_input |-> c.cleaned_input]]
         /\ pc' = [pc EXCEPT ![p] =
                     IF ~valid THEN "done"
                     ELSE IF Len(Get(c.cleaned_input, "add_channels", << >>)) > 0
                       THEN "get" ELSE "delete"]
         /\ outcome' = [outcome EXCEPT ![p] = IF valid THEN "running" ELSE "invalid"]
  /\ idx' = [idx EXCEPT ![p] = 1]
  /\ UNCHANGED <<listings, call, start, pending>>

\* update_or_create, first statement: select_for_update().get(...).  A row
\* found is locked and overwritten; none found leads to the insert.
GetForUpdate(p) ==
  /\ pc[p] = "get"
  /\ Blockers(p) = {}
  /\ LET m   == req[p].id
         e   == Entry(p)
         st  == [t |-> pending[p], raised |-> FALSE]
         n   == BagCardinality(Select(View(listings, pending[p]), m, {e.channel}))
         new == update_or_create(listings, st, m, e.channel,
                                 defaults_of(listings, st, m, e))
     IN  IF n = 0
           THEN /\ pc' = [pc EXCEPT ![p] = "create"]
                /\ UNCHANGED <<listings, call, start, req, idx, pending, outcome>>
         ELSE IF new.raised THEN Reject(p)
         ELSE /\ pending' = [pending EXCEPT ![p] = new.t]
              /\ pc' = [pc EXCEPT ![p] = AfterEntry(p, idx[p])]
              /\ idx' = [idx EXCEPT ![p] = @ + 1]
              /\ UNCHANGED <<listings, call, start, req, outcome>>

\* The unique index on (shipping_method, channel): a committed row under
\* the key makes the insert fail with IntegrityError.
unique_index(table, m, c) == Select(table, m, {c}) # EmptyBag

\* update_or_create, the insert after a get that found nothing.  It waits
\* for a transaction that holds the key; IntegrityError leads to a second get.
Create(p) ==
  /\ pc[p] = "create"
  /\ Blockers(p) = {}
  /\ LET m == req[p].id
         e == Entry(p)
         st == [t |-> pending[p], raised |-> FALSE]
     IN  IF unique_index(View(listings, pending[p]), m, e.channel)
           THEN /\ pc' = [pc EXCEPT ![p] = "retry"]
                /\ UNCHANGED <<listings, call, start, req, idx, pending, outcome>>
           ELSE /\ pending' = [pending EXCEPT ![p].ins =
                                 @ (+) One(Row(m, e.channel, defaults_of(listings, st, m, e)))]
                /\ pc' = [pc EXCEPT ![p] = AfterEntry(p, idx[p])]
                /\ idx' = [idx EXCEPT ![p] = @ + 1]
                /\ UNCHANGED <<listings, call, start, req, outcome>>

\* update_or_create after IntegrityError: the get is repeated; the row found
\* is overwritten, and if it is gone again the IntegrityError is raised.
Retry(p) ==
  /\ pc[p] = "retry"
  /\ Blockers(p) = {}
  /\ LET m   == req[p].id
         e   == Entry(p)
         st  == [t |-> pending[p], raised |-> FALSE]
         n   == BagCardinality(Select(View(listings, pending[p]), m, {e.channel}))
         new == update_or_create(listings, st, m, e.channel,
                                 defaults_of(listings, st, m, e))
     IN  IF n = 0 \/ new.raised THEN Reject(p)
         ELSE /\ pending' = [pending EXCEPT ![p] = new.t]
              /\ pc' = [pc EXCEPT ![p] = AfterEntry(p, idx[p])]
              /\ idx' = [idx EXCEPT ![p] = @ + 1]
              /\ UNCHANGED <<listings, call, start, req, outcome>>

\* remove_channels: the delete locks the rows it removes.
Delete(p) ==
  /\ pc[p] = "delete"
  /\ Blockers(p) = {}
  /\ pending' = [pending EXCEPT ![p] =
                   remove_channels(listings, [t |-> pending[p], raised |-> FALSE],
                                   req[p].id, Removes(p), FALSE).t]
  /\ pc' = [pc EXCEPT ![p] = "commit"]
  /\ UNCHANGED <<listings, call, start, req, idx, outcome>>

\* save returns: transaction.atomic() commits.
Commit(p) ==
  /\ pc[p] = "commit"
  /\ listings' = commit(listings, pending[p])
  /\ pending' = [pending EXCEPT ![p] = NoTxn]
  /\ pc' = [pc EXCEPT ![p] = "done"]
  /\ outcome' = [outcome EXCEPT ![p] = "ok"]
  /\ UNCHANGED <<call, start, req, idx>>

\* Two transactions wait for each other: the store aborts one of them.
DeadlockAbort(p) ==
  /\ \E q \in Blockers(p) : p \in Blockers(q)
  /\ Reject(p)

InitConc ==
  /\ start \in StartTables
  /\ listings = start
  /\ call = NoCall
  /\ req = [p \in Procs |-> NoReq]
  /\ pc = [p \in Procs |-> "idle"]
  /\ idx = [p \in Procs |-> 1]
  /\ pending = [p \in Procs |-> NoTxn]
  /\ outcome = [p \in Procs |-> "idle"]

NextConc ==
  \E p \in Procs :
    \/ \E id \in ShippingMethods, input \in ConcInputs(p) : Begin(p, id, input)
    \/ GetForUpdate(p)
    \/ Create(p)
    \/ Retry(p)
    \/ Delete(p)
    \/ Commit(p)
    \/ DeadlockAbort(p)

SpecConc == InitConc /\ [][NextConc]_vars

(* ------------------------ one call at a time -------------------------- *)

InFlight == call # NoCall

Succeeded == call.saved /\ ~call.raised

AddIds(input) == {input.add_channels[i].channel_id : i \in DOMAIN input.add_channels}

RemoveIds(input) == SeqRange(input.remove_channels)

\* Some channel id is referenced more than once across both lists.
DuplicatedInput(input) ==
  Cardinality(AddIds(input) \cup RemoveIds(input))
    < Len(input.add_channels) + Len(input.remove_channels)

HasCode(errors, code) == \E e \in errors : e.code = code

\* The values an entry supplies: an omitted key counts as null.
Supplied(entry) ==
  [price     |-> IF "price" \in DOMAIN entry THEN entry.price ELSE NULL,
   min_value |-> IF "min_value" \in DOMAIN entry THEN entry.min_value ELSE NULL,
   max_value |-> IF "max_value" \in DOMAIN entry THEN entry.max_value ELSE NULL]

SuppliedRow(entry) == Row(call.id, entry.channel_id, Supplied(entry))

\* C1 as stated: every call whose input references a channel id more than
\* once fails with DUPLICATED_INPUT_ITEM and leaves the rows as they were.
C1_AnyDuplicateCallFailsDuplicated ==
  (InFlight /\ DuplicatedInput(call.input))
    => /\ HasCode(call.errors, DUPLICATED_INPUT_ITEM)
       /\ listings = call.before

\* C1 amended: every call on a shipping-method id that resolves, whose input
\* references a channel id more than once (in both lists or twice in one),
\* fails with DUPLICATED_INPUT_ITEM, never reaches save and leaves every row
\* as it was.
C1_DuplicateInputRejected ==
  (InFlight /\ call.id \in ShippingMethods /\ DuplicatedInput(call.input))
    => /\ HasCode(call.errors, DUPLICATED_INPUT_ITEM)
       /\ ~call.saved
       /\ listings = call.before

\* A call on an existing method that names one channel in both lists, where
\* the add would have changed a row had it been applied.
C1_Witness ==
  /\ InFlight
  /\ call.id \in ShippingMethods
  /\ AddIds(call.input) \cap RemoveIds(call.input) # {}
  /\ HasCode(call.errors, DUPLICATED_INPUT_ITEM)
  /\ \E i \in DOMAIN call.input.add_channels :
       LET e == call.input.add_channels[i]
       IN  /\ Count(listings, call.id, e.channel_id) = 1
           /\ ~BagIn(SuppliedRow(e), listings)

\* C2: in every reachable state there is at most one listing row per
\* (shipping_method, channel) pair.
C2_OneRowPerPair ==
  \A m \in MethodIds, c \in ChannelIds : Count(listings, m, c) <= 1

\* A successful call has just overwritten a row that existed before it.
C2_Witness ==
  /\ Succeeded
  /\ \E i \in DOMAIN call.input.add_channels :
       LET e == call.input.add_channels[i]
       IN  /\ Count(call.before, call.id, e.channel_id) = 1
           /\ ~BagIn(SuppliedRow(e), call.before)
           /\ BagIn(SuppliedRow(e), listings)

\* C3: after a successful call, each entry of add_channels has exactly one
\* row, holding the entry's price, min_value and max_value with an omitted
\* or null key stored as null, whether the row was created or overwritten.
C3_AddedRowsHoldSuppliedValues ==
  Succeeded =>
    \A i \in DOMAIN call.input.add_channels :
      LET e == call.input.add_channels[i]
      IN  Select(listings, call.id, {e.channel_id}) = One(SuppliedRow(e))

\* An entry that omits max_value and gives min_value as null has overwritten
\* a row in which both were set.
C3_Witness ==
  /\ Succeeded
  /\ \E i \in DOMAIN call.input.add_channels :
       LET e   == call.input.add_channels[i]
           old == Select(call.before, call.id, {e.channel_id})
       IN  /\ "max_value" \notin DOMAIN e
           /\ "min_value" \in DOMAIN e /\ e.min_value = NULL
           /\ \E r \in BagToSet(old) : r.max_value # NULL /\ r.min_value # NULL
           /\ BagIn(SuppliedRow(e), listings)

\* C4: after a successful call no row (M, C) remains for a C of
\* remove_channels; a call that only removes, on an existing method with no
\* id repeated and no storage failure, succeeds whether or not the rows
\* exist, and when none exists it changes nothing; the same removal made
\* again right after it succeeds too and leaves the table as the first left it.
C4_RemoveDeletesAndIsIdempotent ==
  /\ Succeeded =>
       \A c \in RemoveIds(call.input) : Count(listings, call.id, c) = 0
  /\ (/\ InFlight /\ call.id \in ShippingMethods /\ call.fault = 0
      /\ call.input.add_channels = << >>
      /\ ~DuplicatedInput(call.input))
       => /\ Succeeded
          /\ call.errors = {}
          /\ (\A c \in RemoveIds(call.input) : Count(call.before, call.id, c) = 0)
               => listings = call.before
          /\ LET again == perform_mutation(listings, call.id, call.input, 0)
             IN  /\ again.table = listings
                 /\ again.errors = {}
                 /\ again.saved /\ ~again.raised

\* One removal has deleted a row that existed and passed over a channel
\* that had none, on a table that still holds other rows.
C4_Witness ==
  /\ Succeeded
  /\ call.input.add_channels = << >>
  /\ \E c, d \in RemoveIds(call.input) :
       /\ Count(call.before, call.id, c) = 1
       /\ Count(call.before, call.id, d) = 0
  /\ \A c \in RemoveIds(call.input) : Count(listings, call.id, c) = 0
  /\ listings # EmptyBag

\* C5: a storage failure at any statement of save (an upsert or the delete)
\* ends the call with the rows exactly as they were before it.
C5_FailureRollsBack ==
  /\ (InFlight /\ call.fault # 0) => call.raised
  /\ call.raised => listings = call.before

\* The delete failed after an upsert that had changed a row.
C5_Witness ==
  /\ call.raised
  /\ call.fault = Len(call.input.add_channels) + 1
  /\ call.input.remove_channels # << >>
  /\ \E i \in DOMAIN call.input.add_channels :
       ~BagIn(SuppliedRow(call.input.add_channels[i]), call.before)

\* C6: a call on method M changes only rows of M whose channel is named in
\* add_channels or remove_channels; every other row keeps its values and
\* its multiplicity.
C6_OnlyNamedRowsChange ==
  InFlight =>
    \A r \in BagToSet(call.before) \cup BagToSet(listings) :
      (r.shipping_method # call.id
         \/ r.channel \notin AddIds(call.input) \cup RemoveIds(call.input))
        => CopiesIn(r, listings) = CopiesIn(r, call.before)

\* A call that removed a row while the other method had a row in the same
\* channel and the same method had a row in another channel.
C6_Witness ==
  /\ Succeeded
  /\ \E c \in RemoveIds(call.input), d \in Channels, m \in ShippingMethods :
       /\ m # call.id /\ d \notin AddIds(call.input) \cup RemoveIds(call.input)
       /\ Count(call.before, call.id, c) = 1
       /\ Count(listings, call.id, c) = 0
       /\ Count(listings, m, c) = 1
       /\ Count(listings, call.id, d) = 1

\* C7: rows are written or deleted, and save is reached, only by a call
\* whose shipping-method id resolved and whose validation ended with no
\* error; a call that ends with an error has not reached save and has
\* changed nothing.
C7_NoPersistenceBeforeValidation ==
  InFlight =>
    /\ (call.saved \/ listings # call.before)
         => /\ call.id \in ShippingMethods
            /\ ~DuplicatedInput(call.input)
            /\ AddIds(call.input) \subseteq Channels
            /\ call.errors = {}
    /\ call.errors # {} => (~call.saved /\ listings = call.before)

\* A call ended with an unknown-channel error although another entry of it
\* named a known channel with new values.
C7_Witness ==
  /\ InFlight
  /\ call.id \in ShippingMethods
  /\ call.errors = {Error("channel_id", NOT_FOUND)}
  /\ \E i \in DOMAIN call.input.add_channels :
       LET e == call.input.add_channels[i]
       IN  e.channel_id \in Channels /\ ~BagIn(SuppliedRow(e), listings)

\* The rows save would leave if it ran the delete before the upserts.
RemovesThenAdds(table, m, input) ==
  LET adds == [i \in DOMAIN input.add_channels |->
                 input.add_channels[i] @@ [channel |-> input.add_channels[i].channel_id]]
      s1   == remove_channels(table, [t |-> NoTxn, raised |-> FALSE], m,
                              input.remove_channels, FALSE)
      s2   == add_channels(table, s1, m, adds, 0)
  IN  commit(table, s2.t)

\* C10: a successful call leaves the rows that running the removes before
\* the adds would leave, and every channel of add_channels still has its
\* row after the remove step.
C10_AddRemoveOrderIrrelevant ==
  Succeeded =>
    /\ listings = RemovesThenAdds(call.before, call.id, call.input)
    /\ \A c \in AddIds(call.input) : Count(listings, call.id, c) = 1

\* A successful call that both added a row and removed an existing one.
C10_Witness ==
  /\ Succeeded
  /\ \E c \in AddIds(call.input), d \in RemoveIds(call.input) :
       /\ Count(call.before, call.id, c) = 0
       /\ Count(call.before, call.id, d) = 1
       /\ Count(listings, call.id, c) = 1
       /\ Count(listings, call.id, d) = 0

(* ------------------------- calls in parallel -------------------------- *)

\* The rows transaction p has written or locked under the key (m, c).
Writes(p, m, c) == Select(pending[p].ins (+) pending[p].del, m, {c})

NewlyRejected(p) == outcome[p] # "rejected" /\ outcome'[p] = "rejected"

\* C8: with calls on one shipping method interleaved statement by
\* statement, no state holds two committed rows for a pair and no
\* transaction sees two; two transactions never both hold uncommitted
\* writes under one key (the later one waits or is rejected); and the step
\* that rejects an invocation leaves the committed rows untouched and
\* nothing of it pending.
C8_NoDuplicateRowsUnderConcurrency ==
  /\ [](\A m \in ShippingMethods, c \in Channels :
          /\ Count(listings, m, c) <= 1
          /\ \A p \in Procs : Count(View(listings, pending[p]), m, c) <= 1
          /\ \A p, q \in Procs :
               (p # q /\ Writes(p, m, c) # EmptyBag) => Writes(q, m, c) = EmptyBag)
  /\ [][\A p \in Procs :
          NewlyRejected(p) => (listings' = listings /\ pending'[p] = NoTxn)]_vars

\* Both calls looked the same pair up and found nothing; one inserted and
\* committed, and the insert of the other has met the unique index.
C8_Witness ==
  \E p, q \in Procs :
    /\ p # q
    /\ pc[p] = "retry"
    /\ start = EmptyBag
    /\ outcome[q] = "ok"
    /\ req[p].id = req[q].id
    /\ Count(listings, req[p].id, Entry(p).channel) = 1
    /\ pending[p].ins # EmptyBag

AllDone == \A p \in Procs : pc[p] = "done"

Serial(p, q) ==
  perform_mutation(perform_mutation(start, req[p].id, req[p].input, 0).table,
                   req[q].id, req[q].input, 0).table

Alone(p) ==
  IF perform_mutation(start, req[p].id, req[p].input, 0).saved THEN "ok" ELSE "invalid"

\* C9: two concurrent calls on distinct shipping methods never wait for
\* each other; when both have ended, the rows are those of running the two
\* calls one after the other, in either order, and each call ended as it
\* would have ended alone.
C9_DistinctMethodsIndependent ==
  (\A p \in Procs : pc[p] # "idle") /\ req[1].id # req[2].id
    => /\ \A p \in Procs : Blockers(p) = {}
       /\ AllDone => /\ listings = Serial(1, 2)
                     /\ listings = Serial(2, 1)
                     /\ \A p \in Procs : outcome[p] = Alone(p)

\* Both calls ended well after one overwrote and the other deleted a row
\* of its own method in the same channel.
C9_Witness ==
  /\ AllDone
  /\ req[1].id # req[2].id
  /\ start = FullTable
  /\ outcome[1] = "ok" /\ outcome[2] = "ok"
  /\ Len(req[1].input.add_channels) = 1 /\ Len(req[1].input.remove_channels) = 1
  /\ \E c \in AddIds(req[1].input) \cap RemoveIds(req[2].input) :
       /\ Count(listings, req[1].id, c) = 1
       /\ Count(listings, req[2].id, c) = 0

====
